---- MODULE Spec2Model ----
(***************************************************************************)
(* A model of the restapp request pipeline: the per-request handler        *)
(* (RequestHandlerBase.with_error_handling), the dispatch of GET/POST to   *)
(* the endpoint operations, the negotiation of the 'alt' representation,   *)
(* the RequestContext helpers and the resource-path resolver.              *)
(*                                                                         *)
(* Strings are sequences of tokens; the separator "/" is always a token of *)
(* its own, so that str.split('/') is computed on the tokens. Names that   *)
(* are looked up as attributes (the alt_* methods) are TLA+ strings.       *)
(***************************************************************************)
EXTENDS Integers, Sequences, FiniteSets, TLC

VARIABLES
    endpoint_class,   \* the endpoint class served: [root_url, impl]
    live,             \* the requests being handled
    request,          \* request[r]: [method, path, args, headers]
    handler,          \* handler[r]: the handler object webapp built for r
    pc,               \* pc[r]: position of r inside with_error_handling
    ctx,              \* ctx[r]: the RequestContext (resource_path, auth_context)
    response,         \* response[r]: [status, headers, out]
    exc,              \* exc[r]: the exception in flight / caught
    call,             \* call[r]: the operation or renderer running: [name, obj, steps]
    log               \* log[r]: history of the calls made into the endpoint

vars == <<endpoint_class, live, request, handler, pc, ctx, response, exc, call, log>>

-----------------------------------------------------------------------------
(* Bounds of the model *)

\* longest request path (in tokens) of the resolver's specification
MaxPathLen == 8
\* number of context helper calls an operation makes before it returns or raises
MaxOpSteps == 2
\* the clock values (ticks) utcnow() is drawn from
MaxNow == 2
\* datetimes are counted in ticks; a second has this many (the sub-second part)
TicksPerSecond == 2
\* last_modified values (ticks) an operation passes to handle_if_modified_since
MaxLastModified == 3
\* helper calls per operation when two requests are served at the same time
MaxConcOpSteps == 1

Reqs == {1, 2}

-----------------------------------------------------------------------------
(* Python values *)

None == [kind |-> "none", val |-> <<>>]
Str(s) == [kind |-> "str", val |-> s]
List(l) == [kind |-> "list", val |-> l]

\* Python truth value of None, a str or a list
Truthy(v) == v.kind # "none" /\ v.val # <<>>

RECURSIVE Split(_, _)
\* s.split(sep) on a string of tokens: the segments between the separators
Split(s, sep) ==
    IF \A i \in 1..Len(s) : s[i] # sep
    THEN <<s>>
    ELSE LET i == CHOOSE k \in 1..Len(s) : s[k] = sep /\ \A j \in 1..(k-1) : s[j] # sep
         IN  <<SubSeq(s, 1, i-1)>> \o Split(SubSeq(s, i+1, Len(s)), sep)

\* filter(lambda x: x, parts)
FilterNonEmpty(parts) == SelectSeq(parts, LAMBDA x : x # <<>>)

\* str.lower() of the 'alt' names the model uses
Lower(s) ==
    CASE s = "JSON" -> "json"
      [] s = "Html" -> "html"
      [] OTHER -> s

-----------------------------------------------------------------------------
(* errors: the RequestError taxonomy *)

RequestError(code, body) == [type |-> "RequestError", code |-> code, body |-> body]
BadRequestError(body) == RequestError(400, body)
UnauthorizedRequestError(body) == RequestError(401, body)
NotFoundError(body) == RequestError(404, body)
NotModifiedError == RequestError(304, <<>>)
InternalServerError(body) == RequestError(500, body)
NotImplementedError == [type |-> "NotImplementedError", code |-> 0, body |-> <<>>]
OtherException == [type |-> "Exception", code |-> 0, body |-> <<>>]
NoException == [type |-> "none", code |-> 0, body |-> <<>>]

\* an except clause that catches every exception
IsRequestErrorAny(e) == e.type # "none"

IsRequestError(e) == e.type = "RequestError"

-----------------------------------------------------------------------------
(* utils *)

\* the string strftime(HTTP_DATE_FMT) gives: it names the whole second only
format_http_time(dt) == [http_date |-> dt \div TicksPerSecond]
\* strptime(HTTP_DATE_FMT): the datetime at that whole second
parse_http_time(s) == s.http_date * TicksPerSecond
\* timedelta -> whole seconds
total_seconds(td) == td \div TicksPerSecond

-----------------------------------------------------------------------------
(* Endpoint: class attributes and class methods *)

Ops == {"query", "get", "post", "upload"}

\* the alt_* methods of Endpoint, and one renderer an endpoint subclass adds
BaseRenderers == {"alt_json", "alt_jsonp", "alt_html",
                  "alt_query_json", "alt_query_jsonp", "alt_query_html"}
CustomRenderers == {"alt_csv"}
Renderers == BaseRenderers \cup CustomRenderers

RootUrls == { <<"/", "books">>, <<"/", "api", "/", "books">> }
\* the operations an endpoint class overrides: none (Endpoint itself),
\* those of the sample BooksEndpoint, all four
ImplSets == { {}, {"get", "query", "post"}, Ops }

get_root_url(cls) == cls.root_url

construct_relative_url(cls, resource_path, alt) ==
    LET alt_postfix == IF alt # "" THEN <<"?alt=", alt>> ELSE <<>>
    IN  get_root_url(cls) \o <<"/">> \o resource_path \o alt_postfix

-----------------------------------------------------------------------------
(* RequestContext *)

\* parts[1:]
Slice1(parts) == SubSeq(parts, 2, Len(parts))

\* variant of _get_resource_path: the root test is strict ('<' for '<=')
get_resource_path_lt(path, root_path_position) ==
    LET parts == FilterNonEmpty(Split(path, "/"))
    IN  IF Len(parts) < root_path_position
        THEN None
        ELSE LET ret == Slice1(parts)
             IN  IF Len(ret) = 1 THEN Str(ret[1]) ELSE List(ret)

\* RequestContext._get_resource_path
get_resource_path(path, root_path_position) ==
    LET parts == FilterNonEmpty(Split(path, "/"))
    IN  IF Len(parts) <= root_path_position
        THEN None
        ELSE LET ret == Slice1(parts)
             IN  IF Len(ret) = 1 THEN Str(ret[1]) ELSE List(ret)

\* RequestContext.__init__
RequestContext(rq, h) ==
    [resource_path |-> get_resource_path(rq.path, h.root_path_position),
     auth_context |-> "None"]

\* request.get(name, default_value)
RequestGet(rq, name, default_value) ==
    IF name \in DOMAIN rq.args THEN rq.args[name] ELSE default_value

SetHeader(resp, name, value) ==
    [resp EXCEPT !.headers =
        [x \in DOMAIN resp.headers \cup {name} |->
            IF x = name THEN value ELSE resp.headers[x]]]

\* response.out.write(s)
Write(resp, s) == [resp EXCEPT !.out = @ \o s]

\* RequestContext.no_cache
no_cache(resp) ==
    SetHeader(SetHeader(resp, "Cache-Control", [directive |-> "no-cache", seconds |-> 0]),
              "Expires", format_http_time(0))

\* RequestContext.cache_expires_in(timedelta), utcnow() being now
cache_expires_in(resp, now, timedelta) ==
    SetHeader(SetHeader(resp, "Expires", format_http_time(now + timedelta)),
              "Cache-Control",
              [directive |-> "max-age", seconds |-> total_seconds(timedelta)])

\* timedelta(days = 365 * 10)
TenYears == 365 * 10 * 24 * 3600 * TicksPerSecond

\* RequestContext.cache_never_expires
cache_never_expires(resp, now) == cache_expires_in(resp, now, TenYears)

\* variant of the truncation: last_modified is compared with its microseconds
ReplaceMicrosecondKept(dt) == dt

\* last_modified.replace(microsecond = 0)
ReplaceMicrosecond0(dt) == (dt \div TicksPerSecond) * TicksPerSecond

\* RequestContext.handle_if_modified_since: does it raise NotModifiedError?
NotModifiedRaised(rq, last_modified) ==
    /\ "If-Modified-Since" \in DOMAIN rq.headers
    /\ parse_http_time(rq.headers["If-Modified-Since"]) >= ReplaceMicrosecond0(last_modified)

-----------------------------------------------------------------------------
(* webapp: the response object and the handler's error / redirect *)

\* webapp.Response(): status 200, the default headers, an empty body
NewResponse ==
    [status |-> 200,
     headers |-> [x \in {"Content-Type", "Cache-Control"} |->
                    IF x = "Content-Type" THEN "text/html; charset=utf-8"
                    ELSE [directive |-> "no-cache", seconds |-> 0]],
     out |-> <<>>]

\* response.clear(): empties the body, keeps status and headers
Clear(resp) == [resp EXCEPT !.out = <<>>]

\* response.set_status(code)
SetStatus(resp, code) == [resp EXCEPT !.status = code]

\* RequestHandler.error(code): set_status(code), then clear()
HandlerError(resp, code) == Clear(SetStatus(resp, code))

\* RequestHandler.redirect(uri): 302, Location, then clear()
Redirect(resp, uri) == Clear(SetHeader(SetStatus(resp, 302), "Location", uri))

-----------------------------------------------------------------------------
(* The handlers *)

\* run_wsgi_restapp: '.*/__upload' is tried first, then '.*'
IsUploadPath(path) ==
    /\ Len(path) >= 2
    /\ path[Len(path)] = "__upload"
    /\ path[Len(path) - 1] = "/"

HandlerClassFor(path) ==
    IF IsUploadPath(path) THEN "UploadRequestHandler" ELSE "RequestHandler"

\* RequestHandlerBase.__init__ / RequestHandler.__init__
NewHandler(cls, class) ==
    [class |-> class,
     root_path |-> get_root_url(cls),
     root_path_position |-> Len(FilterNonEmpty(Split(get_root_url(cls), "/"))),
     default_alt |-> "html"]

Ev(name, c, obj) == [name |-> name, ctx |-> c, obj |-> obj]

Goto(r, label) == pc' = [pc EXCEPT ![r] = label]
Raise(r, e) ==
    /\ exc' = [exc EXCEPT ![r] = e]
    /\ Goto(r, IF IsRequestError(e) THEN "except" ELSE "fault")
Logged(r, e) == log' = [log EXCEPT ![r] = Append(@, e)]

\* with_error_handling: ctx = self._create_context()
\* one context object shared by every handler
CreateContextShared(r) ==
    /\ r \in live /\ pc[r] = "start"
    /\ ctx' = [q \in Reqs |-> RequestContext(request[r], handler[r])]
    /\ Goto(r, "auth")
    /\ UNCHANGED <<endpoint_class, live, request, handler, response, exc, call, log>>

CreateContext(r) ==
    /\ r \in live /\ pc[r] = "start"
    /\ ctx' = [ctx EXCEPT ![r] = RequestContext(request[r], handler[r])]
    /\ Goto(r, "auth")
    /\ UNCHANGED <<endpoint_class, live, request, handler, response, exc, call, log>>


AuthValues == {"None", "me"}

\* how a logged call ended
Returned(v) == [kind |-> "returned", val |-> <<v>>]
Raised == [kind |-> "raised", val |-> <<>>]
\* history of a failure that is not a RequestError, by exception class
Failure(e) == [kind |-> "failure", val |-> <<e.type>>]

\* variant of the authentication step: the hook's result is not stored in the context
AuthenticateNoStore(r) ==
    /\ r \in live /\ pc[r] = "auth"
    /\ \/ \E a \in AuthValues :
            /\ Logged(r, Ev("authenticate_request", ctx[r], Returned(a)))
            /\ Goto(r, "code")
            /\ UNCHANGED exc
       \/ /\ Raise(r, UnauthorizedRequestError(<<"Invalid authentication token">>))
          /\ Logged(r, Ev("authenticate_request", ctx[r], Raised))
       \/ /\ Raise(r, OtherException)
          /\ Logged(r, Ev("authenticate_request", ctx[r], Raised))
    /\ UNCHANGED <<endpoint_class, live, request, handler, ctx, response, call>>

\* with_error_handling: auth_ctx = authenticate_request(ctx); ctx.auth_context = auth_ctx
Authenticate(r) ==
    /\ r \in live /\ pc[r] = "auth"
    /\ \/ \E a \in AuthValues :
            /\ ctx' = [ctx EXCEPT ![r].auth_context = a]
            /\ Logged(r, Ev("authenticate_request", ctx[r], Returned(a)))
            /\ Goto(r, "code")
            /\ UNCHANGED exc
       \/ /\ Raise(r, UnauthorizedRequestError(<<"Invalid authentication token">>))
          /\ Logged(r, Ev("authenticate_request", ctx[r], Raised))
          /\ UNCHANGED ctx
       \/ /\ Raise(r, OtherException)
          /\ log' = [log EXCEPT ![r] =
                  Append(Append(@, Ev("authenticate_request", ctx[r], Raised)),
                         Ev("raise", ctx[r], Failure(OtherException)))]
          /\ UNCHANGED ctx
    /\ UNCHANGED <<endpoint_class, live, request, handler, response, call>>

NoCall == [op |-> "", obj |-> None, steps |-> 0, alt_method |-> ""]
StartOp(r, name) ==
    /\ call' = [call EXCEPT ![r] = [op |-> name, obj |-> None, steps |-> 0, alt_method |-> ""]]
    /\ Logged(r, Ev(name, ctx[r], None))
    /\ Goto(r, "op")

\* variant of UploadRequestHandler.get: safe_get hands the request to upload
UploadGetCallsUpload(r) ==
    /\ r \in live /\ pc[r] = "code"
    /\ handler[r].class = "UploadRequestHandler" /\ request[r].method = "GET"
    /\ StartOp(r, "upload")
    /\ UNCHANGED <<endpoint_class, live, request, handler, ctx, response, exc>>

\* UploadRequestHandler.get: safe_get
UploadGet(r) ==
    /\ r \in live /\ pc[r] = "code"
    /\ handler[r].class = "UploadRequestHandler" /\ request[r].method = "GET"
    /\ Raise(r, BadRequestError(<<"GET is not supported for this special __upload endpoint">>))
    /\ UNCHANGED <<endpoint_class, live, request, handler, ctx, response, call, log>>

\* UploadRequestHandler.post: safe_post calls endpoint.upload(ctx)
UploadPost(r) ==
    /\ r \in live /\ pc[r] = "code"
    /\ handler[r].class = "UploadRequestHandler" /\ request[r].method = "POST"
    /\ StartOp(r, "upload")
    /\ UNCHANGED <<endpoint_class, live, request, handler, ctx, response, exc>>

\* RequestHandler.get: safe_get chooses query or get
Get(r) ==
    /\ r \in live /\ pc[r] = "code"
    /\ handler[r].class = "RequestHandler" /\ request[r].method = "GET"
    /\ StartOp(r, IF ~Truthy(ctx[r].resource_path) THEN "query" ELSE "get")
    /\ UNCHANGED <<endpoint_class, live, request, handler, ctx, response, exc>>

\* RequestHandler.post: safe_post calls endpoint.post(ctx)
Post(r) ==
    /\ r \in live /\ pc[r] = "code"
    /\ handler[r].class = "RequestHandler" /\ request[r].method = "POST"
    /\ StartOp(r, "post")
    /\ UNCHANGED <<endpoint_class, live, request, handler, ctx, response, exc>>

-----------------------------------------------------------------------------
(* The endpoint's operations: user code, which may call the context helpers *)

Dict == [kind |-> "dict", val |-> <<"book">>]
\* get may return (dict, auxiliary value)
TupleResult == [kind |-> "tuple", val |-> <<"book", "Book">>]
QueryResult == [kind |-> "results", val |-> <<"book1", "book2">>]
NewId == [kind |-> "str", val |-> <<"id1">>]

ResultsOf(name) ==
    CASE name = "query" -> {QueryResult}
      [] name = "get" -> {Dict, TupleResult}
      [] OTHER -> {NewId}

InOp(r) == r \in live /\ pc[r] = "op" /\ call[r].op \in endpoint_class.impl

OpStepBound == IF live = Reqs THEN MaxConcOpSteps ELSE MaxOpSteps

Step(r) ==
    /\ call[r].steps < OpStepBound
    /\ call' = [call EXCEPT ![r].steps = @ + 1]

\* the operation writes to ctx.response.out
OpWrite(r) ==
    /\ InOp(r) /\ Step(r)
    /\ response' = [response EXCEPT ![r] = Write(@, <<"partial">>)]
    /\ UNCHANGED <<endpoint_class, live, request, handler, pc, ctx, exc, log>>

\* the operation calls ctx.cache_expires_in(timedelta(seconds = 1))
OpCacheExpiresIn(r) ==
    /\ InOp(r) /\ Step(r)
    /\ \E now \in 1..MaxNow :
         response' = [response EXCEPT ![r] = cache_expires_in(@, now, TicksPerSecond)]
    /\ UNCHANGED <<endpoint_class, live, request, handler, pc, ctx, exc, log>>

\* the operation calls ctx.cache_never_expires()
OpCacheNeverExpires(r) ==
    /\ InOp(r) /\ Step(r)
    /\ \E now \in 1..MaxNow :
         response' = [response EXCEPT ![r] = cache_never_expires(@, now)]
    /\ UNCHANGED <<endpoint_class, live, request, handler, pc, ctx, exc, log>>

\* the operation calls ctx.handle_if_modified_since(last_modified)
OpHandleIfModifiedSince(r) ==
    /\ InOp(r) /\ Step(r)
    /\ \E last_modified \in 1..MaxLastModified :
         /\ response' = [response EXCEPT ![r] =
                SetHeader(@, "Last-Modified", format_http_time(last_modified))]
         /\ Logged(r, Ev("handle_if_modified_since", ctx[r],
                         [kind |-> "datetime", val |-> <<last_modified>>]))
         /\ IF NotModifiedRaised(request[r], last_modified)
            THEN Raise(r, NotModifiedError)
            ELSE UNCHANGED <<pc, exc>>
    /\ UNCHANGED <<endpoint_class, live, request, handler, ctx>>

\* the operation calls ctx.require('isbn')
OpRequire(r) ==
    /\ InOp(r) /\ Step(r)
    /\ IF RequestGet(request[r], "isbn", "") = ""
       THEN Raise(r, BadRequestError(<<"missing required argument '", "isbn", "'">>))
       ELSE UNCHANGED <<pc, exc>>
    /\ UNCHANGED <<endpoint_class, live, request, handler, ctx, response, log>>

\* the operation calls ctx.require_auth()
OpRequireAuth(r) ==
    /\ InOp(r) /\ Step(r)
    /\ IF ctx[r].auth_context = "None"
       THEN Raise(r, UnauthorizedRequestError(<<"Request must be authenticated">>))
       ELSE UNCHANGED <<pc, exc>>
    /\ UNCHANGED <<endpoint_class, live, request, handler, ctx, response, log>>

\* the operation calls ctx.get_uploads(): the handler's own on the upload
\* route (the alias of _create_context), RequestContext.get_uploads elsewhere
OpGetUploads(r) ==
    /\ InOp(r) /\ Step(r)
    /\ IF handler[r].class = "UploadRequestHandler"
       THEN UNCHANGED <<pc, exc>>
       ELSE Raise(r, InternalServerError(
                <<"'get_uploads' can only be called from the 'upload' handler">>))
    /\ UNCHANGED <<endpoint_class, live, request, handler, ctx, response, log>>

\* the operation raises a domain error of its own (sample: NotFoundError)
OpRaise(r) ==
    /\ InOp(r)
    /\ Raise(r, NotFoundError(<<"Book with ISBN ", "not found">>))
    /\ UNCHANGED <<endpoint_class, live, request, handler, ctx, response, call, log>>

\* the operation fails with an exception that is no RequestError
OpRaiseOther(r) ==
    /\ InOp(r)
    /\ Raise(r, OtherException)
    /\ Logged(r, Ev("raise", ctx[r], Failure(OtherException)))
    /\ UNCHANGED <<endpoint_class, live, request, handler, ctx, response, call>>

\* the operation returns its result
OpReturn(r) ==
    /\ InOp(r)
    /\ \E v \in ResultsOf(call[r].op) : call' = [call EXCEPT ![r].obj = v]
    /\ Goto(r, "returned")
    /\ UNCHANGED <<endpoint_class, live, request, handler, ctx, response, exc, log>>

NotImplementedOp(r) == r \in live /\ pc[r] = "op" /\ call[r].op \notin endpoint_class.impl

\* Endpoint.query / Endpoint.get raise NotImplementedError; safe_get's except clause
GetNotImplemented(r) ==
    /\ NotImplementedOp(r) /\ call[r].op \in {"query", "get"}
    /\ Raise(r, BadRequestError(<<"GET is not supported for this endpoint">>))
    /\ Logged(r, Ev("raise", ctx[r], Failure(NotImplementedError)))
    /\ UNCHANGED <<endpoint_class, live, request, handler, ctx, response, call>>

\* Endpoint.post raises NotImplementedError; safe_post's except clause
PostNotImplemented(r) ==
    /\ NotImplementedOp(r) /\ call[r].op = "post"
    /\ response' = [response EXCEPT ![r] =
            Write(HandlerError(@, 400), <<"POST is not supported for this endpoint">>)]
    /\ Goto(r, "done")
    /\ Logged(r, Ev("raise", ctx[r], Failure(NotImplementedError)))
    /\ UNCHANGED <<endpoint_class, live, request, handler, ctx, exc, call>>

\* Endpoint.upload raises NotImplementedError; UploadRequestHandler.post has no except clause
UploadNotImplemented(r) ==
    /\ NotImplementedOp(r) /\ call[r].op = "upload"
    /\ Raise(r, NotImplementedError)
    /\ Logged(r, Ev("raise", ctx[r], Failure(NotImplementedError)))
    /\ UNCHANGED <<endpoint_class, live, request, handler, ctx, response, call>>

-----------------------------------------------------------------------------
(* After the operation returned: redirect (POST) or negotiation (GET) *)

\* variant of the POST redirect: the representation is not forced
PostRedirectUrlNoAlt(h, new_resource) == h.root_path \o <<"/">> \o new_resource

\* RequestHandler.post: self.redirect('%s/%s?alt=json' % (root_path, new_resource))
PostRedirectUrl(h, new_resource) == h.root_path \o <<"/">> \o new_resource \o <<"?alt=json">>

PostRedirect(r) ==
    /\ r \in live /\ pc[r] = "returned" /\ call[r].op = "post"
    /\ response' = [response EXCEPT ![r] = Redirect(@, PostRedirectUrl(handler[r], call[r].obj.val))]
    /\ Logged(r, Ev("redirect", ctx[r], call[r].obj))
    /\ Goto(r, "done")
    /\ UNCHANGED <<endpoint_class, live, request, handler, ctx, exc, call>>

\* UploadRequestHandler.post: self.redirect(construct_relative_url(relative_url))
UploadRedirectUrl(cls, relative_url) == construct_relative_url(cls, relative_url, "")

UploadRedirect(r) ==
    /\ r \in live /\ pc[r] = "returned" /\ call[r].op = "upload"
    /\ response' = [response EXCEPT ![r] = Redirect(@, UploadRedirectUrl(endpoint_class, call[r].obj.val))]
    /\ Logged(r, Ev("redirect", ctx[r], call[r].obj))
    /\ Goto(r, "done")
    /\ UNCHANGED <<endpoint_class, live, request, handler, ctx, exc, call>>

\* safe_get: the prefix chosen with the operation
AltMethodPrefix(op) == IF op = "query" THEN "alt_query_" ELSE "alt_"

\* safe_get: alt = self.request.get('alt', default_value = self.default_alt)
AltOf(rq, h) == RequestGet(rq, "alt", h.default_alt)

\* variant of the renderer lookup: alt is used as given, not lower-cased
AltMethodNameAsGiven(method_name_prefix, alt) == method_name_prefix \o alt

\* _invoke_alt_method: '%s%s' % (method_name_prefix, alt.lower())
AltMethodName(method_name_prefix, alt) == method_name_prefix \o Lower(alt)

\* _invoke_alt_method: getattr(self.endpoint, name, None)
HasAltMethod(name) == name \in Renderers

\* safe_get after the operation, and _invoke_alt_method up to the call of the renderer
InvokeAltMethod(r) ==
    /\ r \in live /\ pc[r] = "returned" /\ call[r].op \in {"query", "get"}
    /\ LET alt == AltOf(request[r], handler[r])
           name == AltMethodName(AltMethodPrefix(call[r].op), alt)
       IN  IF ~HasAltMethod(name)
           THEN /\ response' = [response EXCEPT ![r] =
                        Write(HandlerError(@, 400),
                              <<"unable to represent resource in format: ", alt>>)]
                /\ Goto(r, "done")
                /\ UNCHANGED <<call, log>>
           ELSE /\ call' = [call EXCEPT ![r].alt_method = name]
                /\ Logged(r, Ev(name, ctx[r], call[r].obj))
                /\ Goto(r, "alt")
                /\ UNCHANGED response
    /\ UNCHANGED <<endpoint_class, live, request, handler, ctx, exc>>

-----------------------------------------------------------------------------
(* The renderers *)

\* if isinstance(obj, tuple): obj = obj[0]
First(obj) == IF obj.kind = "tuple" THEN [kind |-> "dict", val |-> <<obj.val[1]>>] ELSE obj

\* json.dumps(obj, indent=4, sort_keys=True)
json_dumps(obj) == <<"json:">> \o obj.val

InAlt(r, names) == r \in live /\ pc[r] = "alt" /\ call[r].alt_method \in names

\* Endpoint.alt_json, and alt_query_json which calls it
AltJson(r) ==
    /\ InAlt(r, {"alt_json", "alt_query_json"})
    /\ response' = [response EXCEPT ![r] =
            Write(SetHeader(@, "Content-Type", "application/json"),
                  json_dumps(First(call[r].obj)))]
    /\ Goto(r, "done")
    /\ UNCHANGED <<endpoint_class, live, request, handler, ctx, exc, call, log>>

\* Endpoint.alt_jsonp, and alt_query_jsonp which calls it
AltJsonp(r) ==
    /\ InAlt(r, {"alt_jsonp", "alt_query_jsonp"})
    /\ LET callback_name == RequestGet(request[r], "callback", "")
       IN  IF callback_name = ""
           THEN /\ Raise(r, BadRequestError(<<"missing required argument '", "callback", "'">>))
                /\ UNCHANGED response
           ELSE /\ response' = [response EXCEPT ![r] =
                        Write(SetHeader(@, "Content-Type", "application/javascript"),
                              <<callback_name, "(">> \o json_dumps(First(call[r].obj)) \o <<")">>)]
                /\ Goto(r, "done")
                /\ UNCHANGED exc
    /\ UNCHANGED <<endpoint_class, live, request, handler, ctx, call, log>>

\* Endpoint.alt_html / alt_query_html -> _alt_html -> write_html_template
AltHtml(r) ==
    /\ InAlt(r, {"alt_html", "alt_query_html"})
    /\ LET filename_prefix == IF call[r].alt_method = "alt_query_html" THEN "query_" ELSE ""
           template_name == <<filename_prefix, "books", ".html">>
       IN  \E exists \in BOOLEAN :
             response' = [response EXCEPT ![r] =
                IF ~exists
                THEN Write(SetStatus(@, 404), <<"unable to find file: ">> \o template_name)
                ELSE Write(@, <<"template:">> \o template_name)]
    /\ Goto(r, "done")
    /\ UNCHANGED <<endpoint_class, live, request, handler, ctx, exc, call, log>>

\* a renderer of the endpoint subclass: writes, then returns or raises
AltCustom(r) ==
    /\ InAlt(r, CustomRenderers)
    /\ response' = [response EXCEPT ![r] =
            Write(SetHeader(@, "Content-Type", "text/csv"), <<"csv,partial">>)]
    /\ \/ Goto(r, "done") /\ UNCHANGED <<exc, log>>
       \/ Raise(r, NotFoundError(<<"no csv for this resource">>)) /\ UNCHANGED log
       \/ /\ Raise(r, OtherException)
          /\ Logged(r, Ev("raise", ctx[r], Failure(OtherException)))
    /\ UNCHANGED <<endpoint_class, live, request, handler, ctx, call>>

-----------------------------------------------------------------------------
(* with_error_handling: except errors.RequestError, e *)

\* variant of the except clause: the status is set without clearing the body
ErrorResponseNoClear(resp, e) == Write(SetStatus(no_cache(resp), e.code), e.body)

\* response.clear(); ctx.no_cache(); self.error(e.code); response.out.write(e.body)
\* an error response built on a fresh response object
ErrorResponseFresh(resp, e) == Write(HandlerError(no_cache(NewResponse), e.code), e.body)

ErrorResponse(resp, e) == Write(HandlerError(no_cache(Clear(resp)), e.code), e.body)

ErrorHandler(r) ==
    /\ r \in live /\ pc[r] = "except"
    /\ response' = [response EXCEPT ![r] = ErrorResponse(@, exc[r])]
    /\ Logged(r, Ev("except", ctx[r], [kind |-> "out", val |-> response[r].out]))
    /\ Goto(r, "done")
    /\ UNCHANGED <<endpoint_class, live, request, handler, ctx, exc, call>>

-----------------------------------------------------------------------------
(* The requests handled *)

Absent == "<absent>"

MkArgs(alt, callback, isbn) ==
    LET dom == (IF alt # Absent THEN {"alt"} ELSE {})
               \cup (IF callback # Absent THEN {"callback"} ELSE {})
               \cup (IF isbn # Absent THEN {"isbn"} ELSE {})
    IN  [k \in dom |-> CASE k = "alt" -> alt [] k = "callback" -> callback [] OTHER -> isbn]

\* the If-Modified-Since header, in whole seconds (-1: no header)
MkHeaders(ims) ==
    [k \in (IF ims >= 0 THEN {"If-Modified-Since"} ELSE {}) |-> [http_date |-> ims]]

Alts == {Absent, "json", "JSON", "jsonp", "xml", "query_json", "csv"}

PathsOf(root) ==
    { root,
      root \o <<"/">>,
      root \o <<"/", "abc">>,
      root \o <<"/", "/", "abc", "/">>,
      root \o <<"/", "abc", "/", "def">>,
      root \o <<"/", "__upload">> }

GetRequests(root) ==
    { [method |-> "GET", path |-> p, args |-> MkArgs(a, c, Absent), headers |-> MkHeaders(-1)] :
        p \in PathsOf(root),
        a \in Alts,
        c \in {Absent} }
    \cup
    { [method |-> "GET", path |-> p, args |-> MkArgs("jsonp", "cb", Absent), headers |-> MkHeaders(-1)] :
        p \in PathsOf(root) }
    \cup
    { [method |-> "GET", path |-> root \o <<"/", "abc">>, args |-> MkArgs(a, Absent, Absent),
       headers |-> MkHeaders(ims)] :
        a \in {Absent, "json"}, ims \in 0..1 }

PostRequests(root) ==
    { [method |-> "POST", path |-> p, args |-> MkArgs(Absent, Absent, i), headers |-> MkHeaders(-1)] :
        p \in PathsOf(root), i \in {Absent, "isbn1"} }

RequestSet(root) == GetRequests(root) \cup PostRequests(root)

IdleRequest == [method |-> "", path |-> <<>>, args |-> MkArgs(Absent, Absent, Absent),
                headers |-> MkHeaders(-1)]

InitRequest(rs) ==
    /\ \E f \in [live -> rs] :
         request = [r \in Reqs |-> IF r \in live THEN f[r] ELSE IdleRequest]
    /\ handler = [r \in Reqs |-> NewHandler(endpoint_class, HandlerClassFor(request[r].path))]
    /\ pc = [r \in Reqs |-> IF r \in live THEN "start" ELSE "idle"]
    /\ ctx = [r \in Reqs |-> [resource_path |-> None, auth_context |-> "None"]]
    /\ response = [r \in Reqs |-> NewResponse]
    /\ exc = [r \in Reqs |-> NoException]
    /\ call = [r \in Reqs |-> NoCall]
    /\ log = [r \in Reqs |-> <<>>]

Init ==
    /\ endpoint_class \in [root_url : RootUrls, impl : ImplSets]
    /\ live = {1}
    /\ InitRequest(RequestSet(endpoint_class.root_url))

Handle(r) ==
    \/ CreateContext(r)
    \/ Authenticate(r)
    \/ UploadGet(r)
    \/ UploadPost(r)
    \/ Get(r)
    \/ Post(r)
    \/ OpWrite(r)
    \/ OpCacheExpiresIn(r)
    \/ OpCacheNeverExpires(r)
    \/ OpHandleIfModifiedSince(r)
    \/ OpRequire(r)
    \/ OpRequireAuth(r)
    \/ OpGetUploads(r)
    \/ OpRaise(r)
    \/ OpRaiseOther(r)
    \/ OpReturn(r)
    \/ GetNotImplemented(r)
    \/ PostNotImplemented(r)
    \/ UploadNotImplemented(r)
    \/ PostRedirect(r)
    \/ UploadRedirect(r)
    \/ InvokeAltMethod(r)
    \/ AltJson(r)
    \/ AltJsonp(r)
    \/ AltHtml(r)
    \/ AltCustom(r)
    \/ ErrorHandler(r)

Next == \E r \in Reqs : Handle(r)

Spec == Init /\ [][Next]_vars

-----------------------------------------------------------------------------
(* The resolver alone: every path of at most MaxPathLen tokens under every  *)
(* root url; the only step is the construction of the context.              *)

PathTokens == {"/", "a", "b"}
AllPaths ==
    UNION { { <<"/">> \o t : t \in [1..n -> PathTokens] } : n \in 0..(MaxPathLen - 1) }

ResolveRequests ==
    { [method |-> "GET", path |-> p, args |-> MkArgs(Absent, Absent, Absent),
       headers |-> MkHeaders(-1)] : p \in AllPaths }

InitResolve ==
    /\ endpoint_class \in [root_url : RootUrls, impl : {Ops}]
    /\ live = {1}
    /\ InitRequest(ResolveRequests)

NextResolve == \E r \in Reqs : CreateContext(r)

SpecResolve == InitResolve /\ [][NextResolve]_vars

-----------------------------------------------------------------------------
(* Two requests served at the same time by one application: each has its    *)
(* own handler instance, and the steps of the two handlers interleave.      *)

ConcRoot == <<"/", "books">>

Req(method, path, args, headers) ==
    [method |-> method, path |-> path, args |-> args, headers |-> headers]

GetAbc(alt, ims) ==
    Req("GET", ConcRoot \o <<"/", "abc">>, MkArgs(alt, Absent, Absent), MkHeaders(ims))
GetUpload ==
    Req("GET", ConcRoot \o <<"/", "__upload">>, MkArgs(Absent, Absent, Absent), MkHeaders(-1))

\* the pairs of requests in flight together
ConcPairs ==
    { <<GetAbc("json", 0), GetAbc(Absent, -1)>>,
      <<Req("GET", ConcRoot, MkArgs("jsonp", "cb", Absent), MkHeaders(-1)), GetUpload>>,
      <<Req("POST", ConcRoot, MkArgs(Absent, Absent, "isbn1"), MkHeaders(-1)), GetUpload>>,
      <<Req("POST", ConcRoot \o <<"/", "__upload">>, MkArgs(Absent, Absent, Absent),
            MkHeaders(-1)), GetUpload>>,
      <<GetUpload, GetAbc("csv", -1)>> }

InitConc ==
    /\ endpoint_class \in [root_url : {ConcRoot}, impl : {{}, Ops}]
    /\ live = Reqs
    /\ \E p \in ConcPairs : request = [r \in Reqs |-> p[r]]
    /\ handler = [r \in Reqs |-> NewHandler(endpoint_class, HandlerClassFor(request[r].path))]
    /\ pc = [r \in Reqs |-> "start"]
    /\ ctx = [r \in Reqs |-> [resource_path |-> None, auth_context |-> "None"]]
    /\ response = [r \in Reqs |-> NewResponse]
    /\ exc = [r \in Reqs |-> NoException]
    /\ call = [r \in Reqs |-> NoCall]
    /\ log = [r \in Reqs |-> <<>>]

SpecConc == InitConc /\ [][Next]_vars

-----------------------------------------------------------------------------
(* Properties *)

SameValue(a, b) == a.kind = b.kind /\ a.val = b.val

LogNames(r) == { log[r][i].name : i \in 1..Len(log[r]) }
OpCalls(r) == { i \in 1..Len(log[r]) : log[r][i].name \in Ops }
AuthCalls(r) == { i \in 1..Len(log[r]) : log[r][i].name = "authenticate_request" }
RendererCalls(r) == { i \in 1..Len(log[r]) : log[r][i].name \in Renderers }
AuthReturned(r) == \E j \in AuthCalls(r) : log[r][j].obj.kind = "returned"
AuthRaisedDomainError(r) ==
    /\ \E j \in AuthCalls(r) : log[r][j].obj.kind = "raised"
    /\ IsRequestError(exc[r])
HasHeader(r, name) == name \in DOMAIN response[r].headers

\* the 'alt' of the request, 'html' when it has none, and its lower-case form
AltGiven(r) == IF "alt" \in DOMAIN request[r].args THEN request[r].args["alt"] ELSE "html"
LowerCased(a) == IF a = "JSON" THEN "json" ELSE a

\* C1: an endpoint operation is called only after authenticate_request has
\* returned in the same request and with its result stored in ctx.auth_context;
\* when the hook raises a domain error no operation runs, no redirect is issued
\* and the finished response carries the error's status and body.
C1_AuthBeforeOperation ==
    \A r \in live :
        /\ \A i \in OpCalls(r) :
              \E j \in 1..(i - 1) :
                  /\ log[r][j].name = "authenticate_request"
                  /\ log[r][j].obj.kind = "returned"
                  /\ log[r][i].ctx.auth_context = log[r][j].obj.val[1]
        /\ AuthRaisedDomainError(r) =>
              /\ OpCalls(r) = {}
              /\ ~HasHeader(r, "Location")
              /\ response[r].status # 302
              /\ pc[r] = "done" =>
                    /\ response[r].status = exc[r].code
                    /\ response[r].out = exc[r].body

\* an operation was called with the authenticated principal in its context
C1_Witness ==
    \E r \in live : \E i \in OpCalls(r) : log[r][i].ctx.auth_context = "me"

\* C2: a request that ended in the except clause with RequestError(c, b) has
\* status c and a body that is exactly b.
C2_DomainErrorResponse ==
    \A r \in live :
        (pc[r] = "done" /\ IsRequestError(exc[r])) =>
            /\ response[r].status = exc[r].code
            /\ response[r].out = exc[r].body

\* a domain error with a body was handled after content had been written
C2_Witness ==
    \E r \in live :
        /\ pc[r] = "done" /\ IsRequestError(exc[r]) /\ exc[r].body # <<>>
        /\ \E i \in 1..Len(log[r]) : log[r][i].name = "except" /\ log[r][i].obj.val # <<>>

ErrorStatuses == {400, 401, 404, 500, 304}
NoCacheHeaders(r) ==
    /\ HasHeader(r, "Cache-Control") /\ response[r].headers["Cache-Control"].directive = "no-cache"
    /\ HasHeader(r, "Expires") /\ response[r].headers["Expires"].http_date = 0

\* C3: every response finished with an error status carries the no-cache
\* headers (Cache-Control: no-cache and the epoch Expires).
C3_ErrorResponsesNotCached ==
    \A r \in live :
        (pc[r] = "done" /\ response[r].status \in ErrorStatuses) => NoCacheHeaders(r)

\* C4: on the general route a GET to <root> calls query, never get, and renders
\* through 'alt_query_'; a GET to <root>/abc calls get, never query, with
\* ctx.resource_path = 'abc', and renders through 'alt_'; at most one of the
\* two is called.
C4_GetDispatch ==
    \A r \in live :
        (request[r].method = "GET" /\ ~IsUploadPath(request[r].path)) =>
            LET root == endpoint_class.root_url
            IN  /\ Cardinality(OpCalls(r)) <= 1
                /\ pc[r] \in {"op", "returned", "alt"} => Cardinality(OpCalls(r)) = 1
                /\ request[r].path = root =>
                      /\ "get" \notin LogNames(r)
                      /\ pc[r] = "op" => call[r].op = "query"
                      /\ call[r].alt_method # "" =>
                            call[r].alt_method = "alt_query_" \o LowerCased(AltGiven(r))
                /\ request[r].path = root \o <<"/", "abc">> =>
                      /\ "query" \notin LogNames(r)
                      /\ pc[r] = "op" => call[r].op = "get"
                      /\ \A i \in OpCalls(r) :
                            SameValue(log[r][i].ctx.resource_path, Str(<<"abc">>))
                      /\ call[r].alt_method # "" =>
                            call[r].alt_method = "alt_" \o LowerCased(AltGiven(r))

\* C5: when the path has more non-empty segments than root_depth, the resource
\* path is the segments after the first root_depth ones: the single trailing
\* segment as a string, or the trailing k >= 2 segments as a list.
C5_TrailingSegments ==
    \A r \in live :
        pc[r] = "auth" =>
            LET parts == FilterNonEmpty(Split(request[r].path, "/"))
                d == handler[r].root_path_position
            IN  Len(parts) > d =>
                    SameValue(ctx[r].resource_path,
                              IF Len(parts) = d + 1
                              THEN Str(parts[d + 1])
                              ELSE List(SubSeq(parts, d + 1, Len(parts))))

\* the tokens at which a non-empty segment of a path starts
SegmentStarts(path) ==
    { i \in 1..Len(path) : path[i] # "/" /\ (i = 1 \/ path[i - 1] = "/") }

\* C6: with root_depth the number of non-empty segments of root_url, the
\* resource path is None exactly when the path has at most root_depth
\* non-empty segments, and is a str or a list otherwise; no path makes the
\* resolver fail.
C6_NoneIffWithinRoot ==
    \A r \in live :
        pc[r] = "auth" =>
            LET n == Cardinality(SegmentStarts(request[r].path))
                d == Cardinality(SegmentStarts(endpoint_class.root_url))
            IN  /\ handler[r].root_path_position = d
                /\ (ctx[r].resource_path.kind = "none") <=> (n <= d)
                /\ ctx[r].resource_path.kind \in {"none", "str", "list"}

\* a path with a duplicate and a trailing slash and exactly root_depth = 2
\* segments was resolved to None
C6_Witness ==
    \E r \in live :
        /\ pc[r] = "auth" /\ ctx[r].resource_path.kind = "none"
        /\ handler[r].root_path_position = 2
        /\ Cardinality(SegmentStarts(request[r].path)) = 2
        /\ request[r].path[Len(request[r].path)] = "/"
        /\ \E i \in 2..Len(request[r].path) :
              request[r].path[i] = "/" /\ request[r].path[i - 1] = "/"

\* C7: a request routed to an operation the endpoint does not implement ends
\* in a 400 response and never in a fault that leaves with_error_handling.
C7_NotImplementedIs400 ==
    \A r \in live :
        (call[r].op \in Ops /\ call[r].op \notin endpoint_class.impl) =>
            /\ pc[r] # "fault"
            /\ pc[r] = "done" => response[r].status = 400

UploadGetRequest(r) ==
    r \in live /\ request[r].method = "GET" /\ IsUploadPath(request[r].path)
GetNotSupported == <<"GET is not supported for this special __upload endpoint">>

\* C8 as stated: a GET on the upload route never calls upload and always
\* finishes with status 400 and the 'GET is not supported' message.
C8_UploadGetAlways400 ==
    \A r \in Reqs :
        UploadGetRequest(r) =>
            /\ "upload" \notin LogNames(r)
            /\ pc[r] = "done" =>
                  /\ response[r].status = 400
                  /\ response[r].out = GetNotSupported

\* C8 as amended: a GET on the upload route never calls upload; when the
\* authentication hook returned, the response is 400 with the 'GET is not
\* supported' message; when the hook raised a domain error, the response has
\* that error's status and body.
C8_UploadGet400AfterAuth ==
    \A r \in Reqs :
        UploadGetRequest(r) =>
            /\ "upload" \notin LogNames(r)
            /\ call[r].op = ""
            /\ pc[r] = "done" =>
                  IF AuthReturned(r)
                  THEN /\ response[r].status = 400
                       /\ response[r].out = GetNotSupported
                  ELSE /\ IsRequestError(exc[r])
                       /\ response[r].status = exc[r].code
                       /\ response[r].out = exc[r].body

\* an authenticated GET on the upload route was answered with 400
C8_Witness ==
    \E r \in Reqs :
        /\ UploadGetRequest(r) /\ pc[r] = "done" /\ AuthReturned(r)
        /\ response[r].status = 400

Redirected(r) == HasHeader(r, "Location") \/ response[r].status = 302

\* C9: a POST whose post returned id is redirected to <root>/<id>?alt=json, an
\* upload POST whose upload returned id to <root>/<id>; only a request whose
\* post or upload returned is redirected, never one that raised a domain error.
C9_RedirectContract ==
    \A r \in live :
        LET root == endpoint_class.root_url
            id == call[r].obj.val
        IN  /\ (pc[r] = "done" /\ call[r].op = "post" /\ call[r].obj.kind # "none") =>
                  /\ response[r].status = 302
                  /\ HasHeader(r, "Location")
                  /\ response[r].headers["Location"] = root \o <<"/">> \o id \o <<"?alt=json">>
            /\ (pc[r] = "done" /\ call[r].op = "upload" /\ call[r].obj.kind # "none") =>
                  /\ response[r].status = 302
                  /\ HasHeader(r, "Location")
                  /\ response[r].headers["Location"] = root \o <<"/">> \o id
            /\ Redirected(r) =>
                  /\ call[r].op \in {"post", "upload"}
                  /\ call[r].obj.kind # "none"
                  /\ ~IsRequestError(exc[r])
            /\ IsRequestError(exc[r]) => ~Redirected(r)

\* a POST on the general route was redirected to the new resource
C9_Witness ==
    \E r \in live :
        /\ pc[r] = "done" /\ call[r].op = "post" /\ response[r].status = 302
        /\ HasHeader(r, "Location")

\* the request went through negotiation (_invoke_alt_method)
Negotiated(r) ==
    /\ r \in live /\ call[r].op \in {"query", "get"} /\ call[r].obj.kind # "none"
    /\ pc[r] \in {"alt", "done", "except", "fault"}

\* C10: the renderer looked up is prefix + lower-cased alt ('html' without
\* alt); when the endpoint has none of that name no renderer is called, nothing
\* is raised and the response is 400 with a body naming the format; when it
\* has one, that renderer is called exactly once with the operation's result.
C10_Negotiation ==
    \A r \in Reqs :
        Negotiated(r) =>
            LET name == (IF call[r].op = "query" THEN "alt_query_" ELSE "alt_")
                            \o LowerCased(AltGiven(r))
            IN  IF name \notin Renderers
                THEN /\ pc[r] = "done"
                     /\ RendererCalls(r) = {}
                     /\ exc[r] = NoException
                     /\ response[r].status = 400
                     /\ \E k \in 1..Len(response[r].out) : response[r].out[k] = AltGiven(r)
                ELSE /\ Cardinality(RendererCalls(r)) = 1
                     /\ \A i \in RendererCalls(r) :
                           /\ log[r][i].name = name
                           /\ log[r][i].obj = call[r].obj

\* alt=xml on an endpoint without alt_xml was answered with 400
C10_Witness ==
    \E r \in Reqs :
        /\ Negotiated(r) /\ AltGiven(r) = "xml" /\ pc[r] = "done"
        /\ response[r].status = 400 /\ RendererCalls(r) = {}

\* the calls of handle_if_modified_since the operation made
IfModifiedSinceCalls(r) ==
    { i \in 1..Len(log[r]) : log[r][i].name = "handle_if_modified_since" }

\* the request carries If-Modified-Since: t (whole seconds) and t is not
\* earlier than last_modified (ticks) cut to whole seconds
NotModifiedCase(r, last_modified) ==
    /\ "If-Modified-Since" \in DOMAIN request[r].headers
    /\ request[r].headers["If-Modified-Since"].http_date >= last_modified \div TicksPerSecond

\* C11: a call handle_if_modified_since(lastModified) on a request whose
\* If-Modified-Since time is >= lastModified cut to whole seconds ends the
\* processing (nothing is called after it, the operation does not return, no
\* renderer runs) and the finished response is 304 with an empty body; without
\* the header or with an earlier time no NotModifiedError is raised and the
\* operation goes on. In both cases Last-Modified is on the response.
C11_ConditionalGet ==
    \A r \in live :
        /\ \A i \in IfModifiedSinceCalls(r) :
              LET last_modified == log[r][i].obj.val[1]
              IN  /\ HasHeader(r, "Last-Modified")
                  /\ NotModifiedCase(r, last_modified) =>
                        /\ pc[r] \in {"except", "done"}
                        /\ exc[r] = NotModifiedError
                        /\ \A k \in (i + 1)..Len(log[r]) : log[r][k].name = "except"
                        /\ call[r].obj.kind = "none"
                        /\ RendererCalls(r) = {}
                        /\ pc[r] = "done" =>
                              /\ response[r].status = 304
                              /\ response[r].out = <<>>
        /\ (\A i \in IfModifiedSinceCalls(r) : ~NotModifiedCase(r, log[r][i].obj.val[1])) =>
              exc[r] # NotModifiedError
        /\ IfModifiedSinceCalls(r) # {} =>
              LET last == CHOOSE i \in IfModifiedSinceCalls(r) :
                              \A k \in IfModifiedSinceCalls(r) : k <= i
              IN  response[r].headers["Last-Modified"].http_date
                      = log[r][last].obj.val[1] \div TicksPerSecond

\* a 304 with an empty body and Last-Modified was sent for a last_modified
\* with a sub-second part, after the operation had written content
C11_Witness ==
    \E r \in live :
        /\ pc[r] = "done" /\ response[r].status = 304 /\ response[r].out = <<>>
        /\ HasHeader(r, "Last-Modified")
        /\ \E i \in IfModifiedSinceCalls(r) : log[r][i].obj.val[1] % TicksPerSecond # 0
        /\ \E i \in 1..Len(log[r]) : log[r][i].name = "except" /\ log[r][i].obj.val # <<>>

\* ---- non-domain failures ----

NonDomainFailures(r) == { i \in 1..Len(log[r]) : log[r][i].name = "raise" }

\* with_error_handling answered the request from its except clause
Handled(r) == \E i \in 1..Len(log[r]) : log[r][i].name = "except"

GetUnsupported == <<"GET is not supported for this endpoint">>
PostUnsupported == <<"POST is not supported for this endpoint">>

\* C12 as stated: every failure that is not a RequestError, raised by the
\* authentication hook, an operation or a renderer, leaves with_error_handling
\* as that failure and is never turned into a response.
C12_NonDomainPropagates ==
    \A r \in live :
        \A i \in NonDomainFailures(r) :
            /\ pc[r] = "fault"
            /\ exc[r].type = log[r][i].obj.val[1]
            /\ ~Handled(r)

\* C12 amended: a NotImplementedError raised by query, get or post is caught by
\* the dispatcher and answered with 400; every other failure that is not a
\* RequestError (also the NotImplementedError of upload) leaves
\* with_error_handling as that failure and is never turned into a response.
C12_PropagatesUnlessNotImplemented ==
    \A r \in live :
        /\ \A i \in NonDomainFailures(r) :
              LET type == log[r][i].obj.val[1]
              IN  IF type = "NotImplementedError" /\ call[r].op \in {"query", "get"}
                  THEN /\ pc[r] \in {"except", "done"}
                       /\ exc[r] = BadRequestError(GetUnsupported)
                       /\ pc[r] = "done" =>
                             response[r].status = 400 /\ response[r].out = GetUnsupported
                  ELSE IF type = "NotImplementedError" /\ call[r].op = "post"
                  THEN /\ pc[r] = "done" /\ exc[r] = NoException /\ ~Handled(r)
                       /\ response[r].status = 400 /\ response[r].out = PostUnsupported
                  ELSE /\ pc[r] = "fault"
                       /\ exc[r].type = type
                       /\ ~Handled(r)
        /\ pc[r] = "fault" => ~IsRequestError(exc[r]) /\ NonDomainFailures(r) # {}
        /\ Handled(r) => IsRequestError(exc[r])

\* a renderer wrote part of its output and then failed with an exception that
\* is not a RequestError: the failure left with_error_handling
C12_Witness ==
    \E r \in live :
        /\ pc[r] = "fault" /\ exc[r] = OtherException
        /\ RendererCalls(r) # {}
        /\ response[r].out # <<>>
        /\ NonDomainFailures(r) # {}

\* ---- two requests at the same time ----

\* everything that belongs to the handling of request q
Local(q) == <<request[q], handler[q], pc[q], ctx[q], response[q], exc[q], call[q], log[q]>>

\* the handler and the context of a request are built from that request alone,
\* and every call into the endpoint was given that request's context
OwnState(r) ==
    LET own == RequestContext(request[r], handler[r])
    IN  /\ handler[r] = NewHandler(endpoint_class, HandlerClassFor(request[r].path))
        /\ pc[r] # "start" => ctx[r].resource_path = own.resource_path
        /\ \A i \in 1..Len(log[r]) : log[r][i].ctx.resource_path = own.resource_path
        /\ \A i \in OpCalls(r) \cup RendererCalls(r) :
              \E j \in AuthCalls(r) :
                  j < i /\ log[r][j].obj = Returned(log[r][i].ctx.auth_context)

\* a step belongs to one request and leaves everything of the other alone
OneRequestSteps ==
    /\ endpoint_class' = endpoint_class
    /\ live' = live
    /\ \E r \in Reqs : \A q \in Reqs \ {r} : Local(q)' = Local(q)

CollectionRenderers == {"alt_query_json", "alt_query_jsonp", "alt_query_html"}

\* C14: the renderer invoked for the result of get is never one of the
\* alt_query_* methods, and the renderer invoked for the result of query is
\* always one of them, whatever the alt parameter is.
C14_RendererFamilyMatches ==
    \A r \in live :
        \A i \in RendererCalls(r) :
            /\ call[r].op = "get" => log[r][i].name \notin CollectionRenderers
            /\ call[r].op = "query" => log[r][i].name \in CollectionRenderers

\* ---- frame of the error boundary ----

CacheHeaders == {"Cache-Control", "Expires"}

\* the except clause of with_error_handling runs for request r in this step
Converts(r) == pc[r] = "except" /\ pc'[r] = "done"

\* C15: when with_error_handling turns a RequestError into the response it
\* changes the body, the status and the Cache-Control and Expires headers and
\* nothing else: every other header set before (Last-Modified, a renderer's
\* Content-Type) keeps its value and is on the error response, no header is
\* removed, and the request, the handler and the context are untouched.
C15_ErrorBoundaryFrame ==
    [][\A r \in live :
          Converts(r) =>
             LET old == response[r].headers
                 new == response'[r].headers
             IN  /\ DOMAIN new = DOMAIN old \cup CacheHeaders
                 /\ \A h \in DOMAIN old \ CacheHeaders : new[h] = old[h]
                 /\ DOMAIN response'[r] = DOMAIN response[r]
                 /\ request'[r] = request[r] /\ handler'[r] = handler[r]
                 /\ ctx'[r] = ctx[r] /\ exc'[r] = exc[r] /\ call'[r] = call[r]]_vars

\* an error response (404 of a failed csv renderer) that still carries the
\* Last-Modified the operation set and the Content-Type the renderer set
C15_Witness ==
    \E r \in live :
        /\ pc[r] = "done" /\ Handled(r) /\ response[r].status = 404
        /\ HasHeader(r, "Last-Modified")
        /\ response[r].headers["Content-Type"] = "text/csv"
        /\ HasHeader(r, "Expires")

====
